---- MODULE Spec2Model ----
(***************************************************************************)
(* Model of the shared-connection database abstraction:                    *)
(*   db.rs / main.rs   DbConnectionGuard (Rc<RefCell<DB>>),                 *)
(*                     DbTransactionGuard, DbError                          *)
(*   sqlite.rs         SQLiteDbImpl (establish, transaction),               *)
(*                     SQLiteDbTransactionImpl (commit, rollback)           *)
(*   sortdb.rs         SortitionDbImpl                                      *)
(*   marfdb.rs         MarfTrieDbImpl                                       *)
(*   db_trait.rs       the same two modules with todo!() bodies             *)
(*                                                                         *)
(* The program is single-threaded.  A "caller" (main, or any code holding  *)
(* the DbConnectionGuard) establishes connections, builds modules with     *)
(* from_db, calls module operations, and may use the public API directly   *)
(* (handle.borrow_mut(), transaction(), commit(), rollback()).  A module   *)
(* operation runs synchronously: while it runs the caller does nothing.    *)
(* A panic unwinds the frame of the operation that raised it (locals are   *)
(* dropped in reverse order of declaration) and is observed by the caller  *)
(* at the call boundary.                                                   *)
(*                                                                         *)
(* The native layer (rusqlite) is outside the repository.  It is modelled  *)
(* by its outcomes: every native call either succeeds or fails with one of *)
(* NativeErrors; a native transaction that is dropped without commit is    *)
(* rolled back by the library without any report.                          *)
(***************************************************************************)
EXTENDS Integers, FiniteSets, Sequences, TLC

VARIABLES
    nativeOpened,  \* number of native connections opened by Connection::open
    cells,         \* the RefCell<SQLiteDbImpl> values: <<[native, borrow, open]>>
    handles,       \* the DbConnectionGuard values: handles[h] = its cell
    live,          \* the handles that have not been dropped
    modules,       \* the module values built so far: {[kind, conn, from]}
    store,         \* store[c]: the committed value of cell c's database
    callerTx,      \* callerTx[c]: the transaction guard the caller got on c
    opTx,          \* the local `tx` of the running module operation
    op,            \* the running module operation and its position
    last           \* what the caller observed from its most recent call

vars == <<nativeOpened, cells, handles, live, modules, store, callerTx, opTx,
          op, last>>

----------------------------------------------------------------------------
(* Bounds *)

MaxConns == 1

----------------------------------------------------------------------------
(* Values *)

\* db.rs: enum DbError
DbErrorVariants ==
    {"Database", "Commit", "Rollback", "Transaction", "Connection", "Other"}

\* failures the native library can report
NativeErrors == {"SQLITE_CANTOPEN", "SQLITE_BUSY"}

\* e.to_string() of a native error
to_string(e) ==
    CASE e = "SQLITE_CANTOPEN" -> "unable to open database file"
      [] e = "SQLITE_BUSY" -> "database is locked"
      [] OTHER -> "unknown error"

\* DbError::<variant>(e.to_string())
DbErr(variant, e) == [variant |-> variant, msg |-> to_string(e)]

TxStates == {"Open", "Committed", "RolledBack", "Abandoned"}
Terminal == {"Committed", "RolledBack", "Abandoned"}

\* no transaction guard
NoTx == [conn |-> 0, state |-> "None", held |-> FALSE, val |-> "empty"]

\* the values a transaction can write; the program never inspects them
Values == {"v1", "v2"}

\* no module operation is running
NoModule == [kind |-> "none", conn |-> 0, from |-> 0]
Idle == [m |-> NoModule, name |-> "none", file |-> "none", pc |-> "idle",
         src |-> "", variant |-> "", msg |-> ""]

\* nothing observed yet
NoCall == [call |-> "none", kind |-> "None", src |-> "", variant |-> "", msg |-> ""]

Ok(call) == [call |-> call, kind |-> "Ok", src |-> "", variant |-> "", msg |-> ""]
Err(call, e) ==
    [call |-> call, kind |-> "Err", src |-> "", variant |-> e.variant, msg |-> e.msg]
Panic(call, src, variant, msg) ==
    [call |-> call, kind |-> "Panic", src |-> src, variant |-> variant, msg |-> msg]

Holders == {"none", "caller", "op"}

\* the operations of each module (sortdb.rs:6-9, marfdb.rs:6-9)
OpsOf(kind) ==
    IF kind = "SortitionDbImpl"
    THEN {"do_some_mut_thing", "do_some_immut_thing"}
    ELSE {"do_something_else_immut", "do_something_mut"}

\* the operations that take &self (sortdb.rs:8, marfdb.rs:7)
ReadOnly(name) == name \in {"do_some_immut_thing", "do_something_else_immut"}

\* (mutant) only SortitionDbImpl's mutating operation opens a transaction
OpensTxSortitionOnly(name) == name = "do_some_mut_thing"

\* the operations whose body borrows the connection and begins a transaction
OpensTx(name) == name \in {"do_some_mut_thing", "do_something_else_immut"}

\* the two copies of the module code: sortdb.rs / marfdb.rs, and db_trait.rs
Files == {"mod", "db_trait"}

----------------------------------------------------------------------------
(* RefCell and Rc *)

\* (mutant) a borrow that does not check the borrow flag
AlwaysBorrowMut(c) == TRUE

\* RefCell::borrow_mut succeeds only when the cell is not borrowed
CanBorrowMut(c) == cells[c].borrow = "none"

SetBorrow(c, who) == [cells EXCEPT ![c].borrow = who]

\* the payload of the panic RefCell::borrow_mut raises
BorrowMutError == "already borrowed: BorrowMutError"

\* Rc::clone(db) / db.db.clone(): a new reference to the cell of handle h
RcClone(h) == handles[h]

\* the strong count of cell c's Rc: the live handle and the modules
Refs(c) ==
    Cardinality({h \in live : handles[h] = c})
    + Cardinality({m \in modules : m.conn = c})

\* (mutant) a holder that owns the connection: its drop closes it
RcDropCloses(c, remaining) == [cells EXCEPT ![c].open = FALSE]

\* dropping one Rc of cell c with `remaining` other references: the cell and
\* its SQLiteDbImpl (the native connection) are dropped with the last one
RcDrop(c, remaining) ==
    IF remaining = 0 THEN [cells EXCEPT ![c].open = FALSE] ELSE cells

----------------------------------------------------------------------------
(* Backend adapter *)

\* what a native call reports: "ok" or one of NativeErrors
NativeOutcomes == {"ok"} \cup NativeErrors

\* (mutant) the open failure reported under another kind, message dropped
EstablishResultOther(r) ==
    IF r = "ok" THEN Ok("establish")
    ELSE Err("establish", [variant |-> "Other", msg |-> "open failed"])

\* SQLiteDbImpl::establish: Connection::open(..).map_err(Connection)?
EstablishResult(r) ==
    IF r = "ok" THEN Ok("establish")
    ELSE Err("establish", DbErr("Connection", r))

\* SQLiteDbImpl::transaction: self.conn.transaction().expect(..)
TransactionResult(r) ==
    IF r = "ok" THEN Ok("transaction")
    ELSE Panic("transaction", "expect", "", to_string(r))

\* (mutant) the commit failure mapped to the Rollback kind
SQLiteCommitAsRollback(r) ==
    IF r = "ok" THEN Ok("commit") ELSE Err("commit", DbErr("Rollback", r))

\* SQLiteDbTransactionImpl::commit: self.tx.commit().map_err(Commit)
SQLiteCommit(r) ==
    IF r = "ok" THEN Ok("commit") ELSE Err("commit", DbErr("Commit", r))

\* SQLiteDbTransactionImpl::rollback: self.tx.rollback().map_err(Rollback)
SQLiteRollback(r) ==
    IF r = "ok" THEN Ok("rollback") ELSE Err("rollback", DbErr("Rollback", r))

\* DbTransactionGuard::commit and ::rollback delegate to the wrapped tx
GuardCommit(r) == SQLiteCommit(r)
GuardRollback(r) == SQLiteRollback(r)

\* the guard DbTransactionGuard::new(tx) wraps around a begun transaction
NewTx(c) ==
    [conn |-> c, state |-> "Open", held |-> TRUE, val |-> "empty"]

\* (mutant) commit(&self) / rollback(&self): the guard stays usable
ConsumeNot(tx) == tx

\* commit(self) and rollback(self) take the guard by value: it is moved
Consume(tx) == [tx EXCEPT !.held = FALSE]

\* the transaction after commit(self): committed, or, when the native commit
\* fails, dropped inside commit (the library rolls it back)
AfterCommit(tx, r) ==
    Consume([tx EXCEPT !.state = IF r = "ok" THEN "Committed" ELSE "RolledBack",
                      !.val = "empty"])

\* the transaction after rollback(self): the guard is consumed whatever the
\* native outcome; on a native failure the library drops the transaction,
\* which rolls it back again without a report.  The record keeps the write
\* that was discarded.
AfterRollback(tx, r) == Consume([tx EXCEPT !.state = "RolledBack"])

\* (mutant) rollback that delegates to the native commit
StoreAfterRollbackCommits(tx, r) ==
    IF tx.val # "empty" THEN [store EXCEPT ![tx.conn] = tx.val] ELSE store

\* the committed data after rollback(self): the pending write is discarded
StoreAfterRollback(tx, r) == store

\* the committed data after commit(self) of tx with native outcome r
StoreAfterCommit(tx, r) ==
    IF r = "ok" /\ tx.val # "empty"
    THEN [store EXCEPT ![tx.conn] = tx.val]
    ELSE store

\* a guard that goes out of scope: there is no Drop impl, so the wrapped
\* native transaction is dropped and rolled back without any report
DropTx(tx) ==
    IF tx.held
    THEN [tx EXCEPT !.state = "Abandoned", !.held = FALSE, !.val = "empty"]
    ELSE tx

\* A finalized guard no longer exists in the program (it was moved into
\* commit or rollback, or dropped).  Its record is kept as the outcome of the
\* call that finalized it, until the caller makes its next call.
Forget(tx) == IF tx.held THEN tx ELSE NoTx
Settled == [c \in DOMAIN callerTx |-> Forget(callerTx[c])]

\* (mutant) a guard whose type is not tied to the connection borrow
TxOutlivesConn(c) == FALSE

\* DbTransactionGuard<'conn, _> borrows the connection reference it was made
\* from: the RefMut of cell c cannot be dropped while the guard lives
TxBorrowsConn(c) == callerTx[c].held

----------------------------------------------------------------------------
(* Init *)

Init ==
    /\ nativeOpened = 0
    /\ cells = << >>
    /\ handles = << >>
    /\ live = {}
    /\ modules = {}
    /\ store = << >>
    /\ callerTx = << >>
    /\ opTx = NoTx
    /\ op = Idle
    /\ last = NoCall

----------------------------------------------------------------------------
(* The caller: establish, from_db, and direct use of the handle *)

\* SQLiteDbImpl::establish(params), the native open reporting r
Establish(r) ==
    /\ op.pc = "idle"
    /\ Len(handles) < MaxConns
    /\ last' = EstablishResult(r)
    /\ IF last'.kind = "Ok"
       THEN /\ nativeOpened' = IF r = "ok" THEN nativeOpened + 1 ELSE nativeOpened
            /\ cells' = Append(cells,
                    [native |-> IF r = "ok" THEN nativeOpened + 1 ELSE 0,
                     borrow |-> "none", open |-> r = "ok"])
            /\ handles' = Append(handles, Len(cells) + 1)
            /\ live' = live \cup {Len(handles) + 1}
            /\ store' = Append(store, "empty")
            /\ callerTx' = Append(Settled, NoTx)
       ELSE /\ callerTx' = Settled
            /\ UNCHANGED <<nativeOpened, cells, handles, live, store>>
    /\ opTx' = Forget(opTx)
    /\ UNCHANGED <<modules, op>>

\* (mutant) from_db that opens a connection of its own instead of sharing
FromDbReopen(kind, h) ==
    /\ op.pc = "idle"
    /\ h \in live
    /\ nativeOpened' = nativeOpened + 1
    /\ cells' = Append(cells,
            [native |-> nativeOpened + 1, borrow |-> "none", open |-> TRUE])
    /\ store' = Append(store, "empty")
    /\ callerTx' = Append(Settled, NoTx)
    /\ modules' = modules \cup {[kind |-> kind, conn |-> Len(cells) + 1, from |-> h]}
    /\ last' = Ok("from_db")
    /\ opTx' = Forget(opTx)
    /\ UNCHANGED <<handles, live, op>>

\* SortitionDbImpl::from_db(&db) / MarfTrieDbImpl::from_db(&db)
FromDb(kind, h) ==
    /\ op.pc = "idle"
    /\ h \in live
    /\ modules' = modules \cup {[kind |-> kind, conn |-> RcClone(h), from |-> h]}
    /\ last' = Ok("from_db")
    /\ callerTx' = Settled
    /\ opTx' = Forget(opTx)
    /\ UNCHANGED <<nativeOpened, cells, handles, live, store, op>>

\* db.borrow_mut() through the handle's Deref
CallerBorrowMut(h) ==
    /\ op.pc = "idle"
    /\ h \in live
    /\ IF CanBorrowMut(handles[h])
       THEN /\ cells' = SetBorrow(handles[h], "caller")
            /\ last' = Ok("borrow_mut")
       ELSE /\ last' = Panic("borrow_mut", "borrow_mut", "", BorrowMutError)
            /\ UNCHANGED cells
    /\ callerTx' = Settled
    /\ opTx' = Forget(opTx)
    /\ UNCHANGED <<nativeOpened, handles, live, modules, store, op>>

\* conn.transaction() on the caller's RefMut of cell c
CallerTransaction(c, r) ==
    /\ op.pc = "idle"
    /\ c \in DOMAIN cells
    /\ cells[c].borrow = "caller"
    /\ ~callerTx[c].held
    /\ last' = TransactionResult(r)
    /\ IF last'.kind = "Ok"
       THEN callerTx' = [Settled EXCEPT ![c] = NewTx(c)]
       ELSE callerTx' = Settled
    /\ opTx' = Forget(opTx)
    /\ UNCHANGED <<nativeOpened, cells, handles, live, modules, store, op>>

\* work done through the guard's Deref inside the open transaction
CallerExecute(c, v) ==
    /\ op.pc = "idle"
    /\ c \in DOMAIN cells
    /\ callerTx[c].held
    /\ callerTx[c].state = "Open"
    /\ callerTx[c].val = "empty"
    /\ callerTx' = [Settled EXCEPT ![c].val = v]
    /\ last' = NoCall
    /\ opTx' = Forget(opTx)
    /\ UNCHANGED <<nativeOpened, cells, handles, live, modules, store, op>>

\* tx.commit() on the caller's guard
CallerCommit(c, r) ==
    /\ op.pc = "idle"
    /\ c \in DOMAIN cells
    /\ callerTx[c].held
    /\ last' = GuardCommit(r)
    /\ callerTx' = [Settled EXCEPT ![c] = AfterCommit(@, r)]
    /\ store' = StoreAfterCommit(callerTx[c], r)
    /\ opTx' = Forget(opTx)
    /\ UNCHANGED <<nativeOpened, cells, handles, live, modules, op>>

\* tx.rollback() on the caller's guard
CallerRollback(c, r) ==
    /\ op.pc = "idle"
    /\ c \in DOMAIN cells
    /\ callerTx[c].held
    /\ last' = GuardRollback(r)
    /\ callerTx' = [Settled EXCEPT ![c] = AfterRollback(@, r)]
    /\ store' = StoreAfterRollback(callerTx[c], r)
    /\ opTx' = Forget(opTx)
    /\ UNCHANGED <<nativeOpened, cells, handles, live, modules, op>>

\* the caller's guard goes out of scope without commit or rollback
CallerDropTx(c) ==
    /\ op.pc = "idle"
    /\ c \in DOMAIN cells
    /\ callerTx[c].held
    /\ callerTx' = [Settled EXCEPT ![c] = DropTx(@)]
    /\ last' = NoCall
    /\ opTx' = Forget(opTx)
    /\ UNCHANGED <<nativeOpened, cells, handles, live, modules, store, op>>

\* the caller's RefMut of cell c goes out of scope
CallerRelease(c) ==
    /\ op.pc = "idle"
    /\ c \in DOMAIN cells
    /\ cells[c].borrow = "caller"
    /\ ~TxBorrowsConn(c)
    /\ cells' = SetBorrow(c, "none")
    /\ callerTx' = Settled
    /\ last' = NoCall
    /\ opTx' = Forget(opTx)
    /\ UNCHANGED <<nativeOpened, handles, live, modules, store, op>>

\* the DbConnectionGuard goes out of scope; a RefMut obtained through it
\* borrows it, so it cannot be dropped while the caller holds one
DropHandle(h) ==
    /\ op.pc = "idle"
    /\ h \in live
    /\ cells[handles[h]].borrow # "caller"
    /\ live' = live \ {h}
    /\ cells' = RcDrop(handles[h], Refs(handles[h]) - 1)
    /\ callerTx' = Settled
    /\ opTx' = Forget(opTx)
    /\ last' = NoCall
    /\ UNCHANGED <<nativeOpened, handles, modules, store, op>>

\* a module value goes out of scope
DropModule(m) ==
    /\ op.pc = "idle"
    /\ m \in modules
    /\ modules' = modules \ {m}
    /\ cells' = RcDrop(m.conn, Refs(m.conn) - 1)
    /\ callerTx' = Settled
    /\ opTx' = Forget(opTx)
    /\ last' = NoCall
    /\ UNCHANGED <<nativeOpened, handles, live, store, op>>

----------------------------------------------------------------------------
(* Module operations.  op.pc:                                              *)
(*   entered   the call was made, no statement has run                     *)
(*   borrowed  `let mut conn = self.conn.borrow_mut();` has run            *)
(*   in_tx     `let tx = conn.transaction().unwrap();` has run             *)
(*   return    `tx.commit().unwrap();` has run, locals not yet dropped     *)
(*   unwind    a panic was raised, locals are being dropped                *)
(***************************************************************************)

\* the cell the running operation's module refers to (self.conn)
OpConn == op.m.conn

\* a panic raised in the running operation
Raise(src, variant, msg) ==
    [op EXCEPT !.pc = "unwind", !.src = src, !.variant = variant, !.msg = msg]

\* the caller invokes operation `name` of module m, compiled from `file`
OpCall(m, name, file) ==
    /\ op.pc = "idle"
    /\ m \in modules
    /\ name \in OpsOf(m.kind)
    /\ op' = [Idle EXCEPT !.m = m, !.name = name, !.file = file, !.pc = "entered"]
    /\ opTx' = NoTx
    /\ callerTx' = Settled
    /\ last' = NoCall
    /\ UNCHANGED <<nativeOpened, cells, handles, live, modules, store>>

\* do_some_immut_thing / do_something_mut: eprintln!(..) in sortdb.rs and
\* marfdb.rs, todo!() in db_trait.rs
OpPlain ==
    /\ op.pc = "entered"
    /\ ~OpensTx(op.name)
    /\ IF op.file = "mod"
       THEN /\ op' = Idle
            /\ last' = Ok(op.name)
       ELSE /\ op' = Raise("todo", "", "not yet implemented")
            /\ UNCHANGED last
    /\ UNCHANGED <<nativeOpened, cells, handles, live, modules, store, callerTx, opTx>>

\* (mutant) a failed borrow is swallowed and the operation returns
OpBorrowMutQuiet ==
    /\ op.pc = "entered"
    /\ OpensTx(op.name)
    /\ IF CanBorrowMut(OpConn)
       THEN /\ cells' = SetBorrow(OpConn, "op")
            /\ op' = [op EXCEPT !.pc = "borrowed"]
            /\ UNCHANGED last
       ELSE /\ op' = Idle
            /\ last' = Ok(op.name)
            /\ UNCHANGED cells
    /\ UNCHANGED <<nativeOpened, handles, live, modules, store, callerTx, opTx>>

\* let mut conn = self.conn.borrow_mut();
OpBorrowMut ==
    /\ op.pc = "entered"
    /\ OpensTx(op.name)
    /\ IF CanBorrowMut(OpConn)
       THEN /\ cells' = SetBorrow(OpConn, "op")
            /\ op' = [op EXCEPT !.pc = "borrowed"]
       ELSE /\ op' = Raise("borrow_mut", "", BorrowMutError)
            /\ UNCHANGED cells
    /\ UNCHANGED <<nativeOpened, handles, live, modules, store, callerTx, opTx, last>>

\* let tx = conn.transaction().unwrap();
OpTransaction(r) ==
    /\ op.pc = "borrowed"
    /\ LET res == TransactionResult(r) IN
       IF res.kind = "Ok"
       THEN /\ opTx' = NewTx(OpConn)
            /\ op' = [op EXCEPT !.pc = "in_tx"]
       ELSE /\ op' = Raise(IF res.kind = "Panic" THEN res.src ELSE "unwrap",
                           res.variant, res.msg)
            /\ UNCHANGED opTx
    /\ UNCHANGED <<nativeOpened, cells, handles, live, modules, store, callerTx, last>>

\* db_trait.rs: todo!() with the transaction open
OpTodo ==
    /\ op.pc = "in_tx"
    /\ op.file = "db_trait"
    /\ op' = Raise("todo", "", "not yet implemented")
    /\ UNCHANGED <<nativeOpened, cells, handles, live, modules, store, callerTx, opTx, last>>

\* sortdb.rs, marfdb.rs: eprintln!(..); tx.commit().unwrap();
OpCommit(r) ==
    /\ op.pc = "in_tx"
    /\ op.file = "mod"
    /\ opTx.held
    /\ opTx' = AfterCommit(opTx, r)
    /\ store' = StoreAfterCommit(opTx, r)
    /\ LET res == GuardCommit(r) IN
       op' = IF res.kind = "Ok"
             THEN [op EXCEPT !.pc = "return"]
             ELSE Raise("unwrap", res.variant, res.msg)
    /\ UNCHANGED <<nativeOpened, cells, handles, live, modules, callerTx, last>>

\* (mutant) the operation returns with `conn` leaked (still borrowed)
OpReturnLeaksConn ==
    /\ op.pc = "return"
    /\ op' = Idle
    /\ last' = Ok(op.name)
    /\ UNCHANGED <<nativeOpened, cells, handles, live, modules, store, callerTx, opTx>>

\* the end of the body: `conn` is dropped and the operation returns ()
OpReturn ==
    /\ op.pc = "return"
    /\ cells' = SetBorrow(OpConn, "none")
    /\ op' = Idle
    /\ last' = Ok(op.name)
    /\ UNCHANGED <<nativeOpened, handles, live, modules, store, callerTx, opTx>>

\* unwinding drops `tx` first (declared last)
OpDropTx ==
    /\ op.pc = "unwind"
    /\ opTx.held
    /\ opTx' = DropTx(opTx)
    /\ UNCHANGED <<nativeOpened, cells, handles, live, modules, store, callerTx, op, last>>

\* unwinding then drops `conn`, the RefMut this operation took
OpDropConn ==
    /\ op.pc = "unwind"
    /\ ~opTx.held
    /\ cells[OpConn].borrow = "op"
    /\ cells' = SetBorrow(OpConn, "none")
    /\ UNCHANGED <<nativeOpened, handles, live, modules, store, callerTx, opTx, op, last>>

\* (mutant) a panic that leaves the frame without dropping its locals
OpCaughtNoUnwind ==
    /\ op.pc = "unwind"
    /\ last' = Panic(op.name, op.src, op.variant, op.msg)
    /\ op' = Idle
    /\ UNCHANGED <<nativeOpened, cells, handles, live, modules, store, callerTx, opTx>>

\* the panic reaches the call boundary
OpCaught ==
    /\ op.pc = "unwind"
    /\ ~opTx.held
    /\ cells[OpConn].borrow # "op"
    /\ last' = Panic(op.name, op.src, op.variant, op.msg)
    /\ op' = Idle
    /\ UNCHANGED <<nativeOpened, cells, handles, live, modules, store, callerTx, opTx>>

----------------------------------------------------------------------------
(* Specification *)

Kinds == {"SortitionDbImpl", "MarfTrieDbImpl"}

Next ==
    \/ \E r \in NativeOutcomes : Establish(r)
    \/ \E kind \in Kinds, h \in live : FromDb(kind, h)
    \/ \E h \in live : CallerBorrowMut(h)
    \/ \E h \in live : DropHandle(h)
    \/ \E m \in modules : DropModule(m)
    \/ \E c \in DOMAIN cells, r \in NativeOutcomes : CallerTransaction(c, r)
    \/ \E c \in DOMAIN cells, v \in Values : CallerExecute(c, v)
    \/ \E c \in DOMAIN cells, r \in NativeOutcomes : CallerCommit(c, r)
    \/ \E c \in DOMAIN cells, r \in NativeOutcomes : CallerRollback(c, r)
    \/ \E c \in DOMAIN cells : CallerDropTx(c)
    \/ \E c \in DOMAIN cells : CallerRelease(c)
    \/ \E m \in modules, file \in Files :
          \E name \in OpsOf(m.kind) : OpCall(m, name, file)
    \/ OpPlain
    \/ OpBorrowMut
    \/ \E r \in NativeOutcomes : OpTransaction(r)
    \/ OpTodo
    \/ \E r \in NativeOutcomes : OpCommit(r)
    \/ OpReturn
    \/ OpDropTx
    \/ OpDropConn
    \/ OpCaught

Spec == Init /\ [][Next]_vars

\* main.rs:182-185: an operation of sortdb.rs / marfdb.rs called at a point
\* where the caller holds no borrow of the module's connection
SeqOpCall(m, name) ==
    /\ cells[m.conn].borrow # "caller"
    /\ OpCall(m, name, "mod")

\* main.rs:168-187: the program establishes, builds modules and calls their
\* operations one after the other, never from inside a borrow of its own,
\* with a backend whose begin, commit and rollback succeed
SeqNext ==
    \/ \E r \in NativeOutcomes : Establish(r)
    \/ \E kind \in Kinds, h \in live : FromDb(kind, h)
    \/ \E h \in live : CallerBorrowMut(h)
    \/ \E h \in live : DropHandle(h)
    \/ \E m \in modules : DropModule(m)
    \/ \E c \in DOMAIN cells : CallerTransaction(c, "ok")
    \/ \E c \in DOMAIN cells, v \in Values : CallerExecute(c, v)
    \/ \E c \in DOMAIN cells : CallerCommit(c, "ok")
    \/ \E c \in DOMAIN cells : CallerRollback(c, "ok")
    \/ \E c \in DOMAIN cells : CallerDropTx(c)
    \/ \E c \in DOMAIN cells : CallerRelease(c)
    \/ \E m \in modules : \E name \in OpsOf(m.kind) : SeqOpCall(m, name)
    \/ OpPlain
    \/ OpBorrowMut
    \/ OpTransaction("ok")
    \/ OpCommit("ok")
    \/ OpReturn

SeqSpec == Init /\ [][SeqNext]_vars

----------------------------------------------------------------------------
(* Properties *)

\* the number of Open transactions on cell c
OpenOn(c) ==
    (IF callerTx[c].state = "Open" THEN 1 ELSE 0)
    + (IF opTx.state = "Open" /\ opTx.conn = c THEN 1 ELSE 0)

\* C1: at every instant at most one transaction on a connection is Open,
\* whatever modules built from its handle are operating.
C1_AtMostOneOpen == \A c \in DOMAIN cells : OpenOn(c) <= 1

\* a module operation's transaction is Open while a second module shares
\* the connection
C1_Witness ==
    /\ opTx.state = "Open"
    /\ \E a, b \in modules : a.kind # b.kind /\ a.conn = b.conn /\ a.conn = opTx.conn

\* C2: between module operations no transaction of an operation is Open and
\* no operation holds the exclusive borrow; an operation that returned
\* normally after opening a transaction has committed it.
C2_FinalizedAtBoundary ==
    op.pc = "idle" =>
        /\ \A c \in DOMAIN cells : cells[c].borrow # "op"
        /\ opTx.state # "Open"
        /\ ~opTx.held
        /\ (last.kind = "Ok" /\ OpensTx(last.call)) => opTx.state = "Committed"

\* an operation that opened a transaction has just returned
C2_Witness ==
    /\ op.pc = "idle"
    /\ last = Ok("do_something_else_immut")
    /\ opTx.state = "Committed"

\* an Open transaction's connection is exclusively borrowed by its owner
C3_OpenUnderBorrow ==
    /\ \A c \in DOMAIN cells :
          callerTx[c].state = "Open" => cells[c].borrow = "caller"
    /\ opTx.state = "Open" =>
          /\ op.pc # "idle"
          /\ opTx.conn = OpConn
          /\ cells[opTx.conn].borrow = "op"

\* a transaction becomes Open only while its owner holds the borrow
C3_BegunUnderBorrow ==
    /\ \A c \in DOMAIN cells :
          (callerTx[c].state # "Open" /\ callerTx'[c].state = "Open")
              => (cells[c].borrow = "caller" /\ cells'[c].borrow = "caller")
    /\ (opTx.state # "Open" /\ opTx'.state = "Open")
          => (cells[opTx'.conn].borrow = "op" /\ cells'[opTx'.conn].borrow = "op")

\* C3: a transaction never outlives the borrow that created it: while it is
\* Open its connection is exclusively borrowed by whoever began it (so the
\* borrow ends only once the transaction is terminal), and a transaction is
\* begun only under that borrow.
C3_TxWithinBorrow == []C3_OpenUnderBorrow /\ [][C3_BegunUnderBorrow]_vars

\* a module operation holds the borrow with its transaction Open
C3_Witness ==
    /\ op.pc = "in_tx"
    /\ opTx.state = "Open"
    /\ cells[OpConn].borrow = "op"

\* one step of one transaction record: the moves the lifecycle allows
TxStep(old, new) ==
    \/ new = old
    \/ /\ old.state = "Open"
       /\ new.state = "Open"
       /\ new.held = old.held /\ new.conn = old.conn
    \/ /\ old.state = "Open"
       /\ new.state \in Terminal
       /\ ~new.held /\ new.conn = old.conn
    \/ /\ old.state \in Terminal \cup {"None"}
       /\ ~old.held
       /\ new \in {NoTx} \cup {NewTx(c) : c \in DOMAIN cells}

\* a guard exists exactly while its transaction is Open
C4_GuardIffOpen ==
    /\ \A c \in DOMAIN cells : callerTx[c].held <=> callerTx[c].state = "Open"
    /\ opTx.held <=> opTx.state = "Open"

\* every transaction record moves only along the lifecycle
C4_Lifecycle ==
    /\ \A c \in DOMAIN cells : TxStep(callerTx[c], callerTx'[c])
    /\ TxStep(opTx, opTx')

\* C4: a transaction goes Open -> Committed, Open -> RolledBack or
\* Open -> Abandoned and nowhere else; commit and rollback consume the guard,
\* so no guard is left to finalize a transaction that is already terminal.
C4_StateMachine == []C4_GuardIffOpen /\ [][C4_Lifecycle]_vars

\* a transaction was rolled back by the caller and its guard is gone
C4_Witness ==
    /\ last = Ok("rollback")
    /\ \E c \in DOMAIN cells : callerTx[c].state = "RolledBack" /\ ~callerTx[c].held

\* C5 (as claimed): when a module operation's transaction is discarded without
\* commit or rollback, the caller is given a DbError for the abandonment.
C5_AbandonmentReported ==
    (op.pc = "idle" /\ opTx.state = "Abandoned") =>
        (last.kind \in {"Err", "Panic"} /\ last.variant \in DbErrorVariants)

\* the failed borrow attempt of a module operation changes nothing but `op`
C6_OpAttempt ==
    (/\ op.pc = "entered"
     /\ OpensTx(op.name)
     /\ cells[OpConn].borrow # "none"
     /\ op' # op)
    => /\ op'.pc = "unwind"
       /\ op'.src = "borrow_mut"
       /\ UNCHANGED <<cells, store, callerTx, opTx>>

\* the panic of the failed attempt reaches the caller; the borrow is never
\* granted to the operation afterwards
C6_OpFails ==
    (op.pc = "unwind" /\ op.src = "borrow_mut" /\ op' # op)
    => /\ op'.pc = "idle"
       /\ last' = Panic(op.name, "borrow_mut", "", BorrowMutError)
       /\ UNCHANGED <<cells, store, callerTx, opTx>>

\* the caller's own second borrow_mut fails the same way
C6_CallerAttempt ==
    \A h \in DOMAIN handles :
        (CallerBorrowMut(h) /\ cells[handles[h]].borrow # "none")
        => /\ last' = Panic("borrow_mut", "borrow_mut", "", BorrowMutError)
           /\ UNCHANGED <<cells, store>>
           /\ \A c \in DOMAIN cells : callerTx[c].held => callerTx'[c] = callerTx[c]

\* C6: an exclusive borrow attempted while the connection is exclusively
\* borrowed panics at the attempt, is never granted later, and leaves the
\* outstanding borrow, the open transaction and the data unchanged.
C6_FailFast == [][C6_OpAttempt /\ C6_OpFails /\ C6_CallerAttempt]_vars

\* a module operation's borrow attempt has failed against the caller's borrow
\* with the caller's transaction Open
C6_Witness ==
    /\ op.pc = "unwind"
    /\ op.src = "borrow_mut"
    /\ cells[OpConn].borrow = "caller"
    /\ callerTx[OpConn].state = "Open"

\* C7: from_db shares the handle's connection: there is one cell and one
\* native connection per successful establish, and every module refers to
\* the cell of the handle it was built from.
C7_SharedConnection ==
    /\ nativeOpened = Len(handles)
    /\ Len(cells) = Len(handles)
    /\ \A h \in DOMAIN handles : cells[handles[h]].native = h
    /\ \A m \in modules : m.from \in DOMAIN handles /\ m.conn = handles[m.from]

\* both module kinds were built from the one handle of the one connection
C7_Witness ==
    /\ nativeOpened = 1
    /\ \E a, b \in modules :
          a.kind = "SortitionDbImpl" /\ b.kind = "MarfTrieDbImpl" /\ a.conn = b.conn

\* a handle whose connection is open and not borrowed
Usable(h) ==
    /\ handles[h] \in DOMAIN cells
    /\ cells[handles[h]].native \in 1..nativeOpened
    /\ cells[handles[h]].borrow = "none"

\* the two outcomes of establish
C8_Outcome ==
    \A r \in NativeOutcomes :
        Establish(r) =>
            IF r = "ok"
            THEN /\ last' = Ok("establish")
                 /\ Len(handles') = Len(handles) + 1
                 /\ nativeOpened' = nativeOpened + 1
                 /\ [hh \in DOMAIN handles |-> handles'[hh]] = handles
                 /\ handles'[Len(handles')] \in DOMAIN cells'
                 /\ cells'[handles'[Len(handles')]].native = nativeOpened'
                 /\ cells'[handles'[Len(handles')]].borrow = "none"
            ELSE /\ last' = [call |-> "establish", kind |-> "Err", src |-> "",
                             variant |-> "Connection", msg |-> to_string(r)]
                 /\ UNCHANGED <<handles, live, cells, nativeOpened>>

\* every handle's connection is an open native connection
C8_HandlesLive ==
    \A h \in DOMAIN handles :
        handles[h] \in DOMAIN cells /\ cells[handles[h]].native \in 1..nativeOpened

\* C8: establish either produces a handle whose connection is open and
\* unborrowed, or a Connection error carrying the native failure's message
\* and no handle.
C8_Establish == []C8_HandlesLive /\ [][C8_Outcome]_vars

\* a failed open was reported as a Connection error and produced no handle
C8_Witness ==
    /\ last.call = "establish"
    /\ last.kind = "Err"
    /\ last.variant = "Connection"
    /\ last.msg = "unable to open database file"
    /\ handles = << >>

\* C9 (as claimed): no call ends in a panic caused by a native failure (only
\* a violated invariant such as a second exclusive borrow panics).
C9_NoPanicOnNativeFailure ==
    ~(last.kind = "Panic" /\ last.src \in {"expect", "unwrap"})

\* the results of commit() and rollback() on the guard
C10_Caller ==
    \A c \in DOMAIN cells, r \in NativeOutcomes :
        /\ CallerCommit(c, r) =>
              last' = IF r = "ok" THEN Ok("commit")
                      ELSE [call |-> "commit", kind |-> "Err", src |-> "",
                            variant |-> "Commit", msg |-> to_string(r)]
        /\ CallerRollback(c, r) =>
              last' = IF r = "ok" THEN Ok("rollback")
                      ELSE [call |-> "rollback", kind |-> "Err", src |-> "",
                            variant |-> "Rollback", msg |-> to_string(r)]

\* the result of commit() that a module operation unwraps
C10_Op ==
    \A r \in NativeOutcomes :
        OpCommit(r) =>
            IF r = "ok" THEN op'.pc = "return"
            ELSE /\ op'.pc = "unwind"
                 /\ op'.src = "unwrap"
                 /\ op'.variant = "Commit"
                 /\ op'.msg = to_string(r)

\* C10: commit() yields Ok or a Commit error and rollback() yields Ok or a
\* Rollback error, each error carrying the native failure's message.
C10_ErrorKinds == [][C10_Caller /\ C10_Op]_vars

\* a native commit failure came back as a Commit error
C10_Witness ==
    /\ last.call = "commit"
    /\ last.kind = "Err"
    /\ last.variant = "Commit"
    /\ last.msg = "database is locked"

\* a rollback changes no committed data and leaves the caller with the
\* borrow and without a guard
C11_Rollback ==
    \A c \in DOMAIN cells, r \in NativeOutcomes :
        CallerRollback(c, r) =>
            /\ store' = store
            /\ callerTx'[c].state = "RolledBack"
            /\ ~callerTx'[c].held
            /\ cells'[c] = cells[c]

\* a successful commit publishes exactly the committing transaction's write
C11_Commit ==
    \A c \in DOMAIN cells :
        CallerCommit(c, "ok") =>
            store' = [store EXCEPT
                        ![c] = IF callerTx[c].val # "empty" THEN callerTx[c].val ELSE @]

\* committed data changes by a successful commit only
C11_OnlyCommit ==
    (\E c \in DOMAIN store : store'[c] # store[c]) =>
        \/ \E c \in DOMAIN cells : CallerCommit(c, "ok")
        \/ OpCommit("ok")

\* after a rollback the next transaction can be begun on the connection
C11_Reusable ==
    \A c \in DOMAIN cells :
        (last = Ok("rollback") /\ callerTx[c].state = "RolledBack")
            => ENABLED CallerTransaction(c, "ok")

\* the transaction begun after a rollback starts without the discarded write
C11_Reopen ==
    \A c \in DOMAIN cells :
        (callerTx[c].state = "RolledBack" /\ CallerTransaction(c, "ok"))
            => (callerTx'[c] = NewTx(c) /\ last' = Ok("transaction") /\ store' = store)

\* C11: rollback discards the transaction's write and leaves the connection
\* reusable: the next transaction opens, and the committed data is always the
\* write of a committed transaction, never of a rolled-back one.
C11_RollbackRoundTrip ==
    []C11_Reusable /\ [][C11_Rollback /\ C11_Commit /\ C11_OnlyCommit /\ C11_Reopen]_vars

\* the connection holds the committed v2 and a transaction that had written
\* v1 has just been rolled back on it
C11_Witness ==
    /\ last = Ok("rollback")
    /\ \E c \in DOMAIN cells :
          /\ callerTx[c].state = "RolledBack"
          /\ callerTx[c].val = "v1"
          /\ store[c] = "v2"

\* the committed data a transaction reads: that of its connection
View(tx) == store[tx.conn]

\* the transaction of a running operation is on the connection that every
\* module built from the same handle commits to, and reads its committed data
C12_SameData ==
    (op.pc = "in_tx" /\ opTx.state = "Open") =>
        \A a \in modules :
            a.from = op.m.from =>
                /\ opTx.conn = a.conn
                /\ cells[opTx.conn].native = cells[a.conn].native
                /\ View(opTx) = store[a.conn]

\* the commit of a module operation publishes on the module's connection
C12_Publish ==
    OpCommit("ok") =>
        store' = [store EXCEPT ![op.m.conn] = IF opTx.val # "empty" THEN opTx.val ELSE @]

C13_OpenIffHeld ==
    \A c \in DOMAIN cells :
        /\ cells[c].open <=> Refs(c) > 0
        /\ ~cells[c].open =>
              /\ cells[c].borrow = "none"
              /\ OpenOn(c) = 0
              /\ op.pc # "idle" => OpConn # c

\* a connection closes only in the step that drops its last reference, and a
\* closed connection never changes again
C13_ClosedForGood ==
    \A c \in DOMAIN cells :
        /\ (cells[c].open /\ ~cells'[c].open) =>
              /\ Refs(c) = 1
              /\ \/ \E h \in live : handles[h] = c /\ DropHandle(h)
                 \/ \E m \in modules : m.conn = c /\ DropModule(m)
        /\ ~cells[c].open =>
              /\ cells'[c] = cells[c]
              /\ store'[c] = store[c]
              /\ callerTx'[c].state # "Open"

\* C13: the connection lives as long as the handle or a module built from it
\* exists, is closed exactly when the last of them is dropped, and is never
\* used again afterwards.
C13_Lifecycle == []C13_OpenIffHeld /\ [][C13_ClosedForGood]_vars

\* the handle has been dropped and a module still runs a transaction on the
\* open connection
C13_Witness ==
    /\ live = {}
    /\ op.pc = "in_tx"
    /\ cells[OpConn].open
    /\ Refs(OpConn) = 1

\* C14 (as claimed): a running read-only operation holds no borrow and has no
\* transaction, and a mutating operation that returned has opened one.
C14_ReadOnlyNeverMutatingAlways ==
    /\ (op.pc # "idle" /\ ReadOnly(op.name)) =>
          (cells[OpConn].borrow # "op" /\ opTx = NoTx)
    /\ (op.pc = "idle" /\ last.kind = "Ok"
            /\ last.call \in {"do_some_mut_thing", "do_something_mut"}) =>
          opTx.state = "Committed"

\* do_some_immut_thing and do_something_mut hold no borrow and no transaction
C14_PlainState ==
    (op.pc # "idle" /\ op.name \in {"do_some_immut_thing", "do_something_mut"}) =>
        (cells[OpConn].borrow # "op" /\ opTx = NoTx)

\* ... and change neither borrow state, transactions nor data
C14_PlainFrame ==
    (op.pc # "idle" /\ op.name \in {"do_some_immut_thing", "do_something_mut"}) =>
        UNCHANGED <<cells, store, callerTx, opTx>>

\* do_some_mut_thing and do_something_else_immut have their transaction once
\* past the begin, and have committed it when they return
C14_TxState ==
    /\ (op.pc \in {"in_tx", "return"}
            /\ op.name \in {"do_some_mut_thing", "do_something_else_immut"}) =>
          (opTx.state \in {"Open", "Committed"} /\ opTx.conn = OpConn)
    /\ (op.pc = "idle" /\ last.kind = "Ok"
            /\ last.call \in {"do_some_mut_thing", "do_something_else_immut"}) =>
          opTx.state = "Committed"

\* ... they first borrow, then begin, and begin one transaction per call
C14_TxSteps ==
    /\ (op.pc = "entered" /\ op' # op
            /\ op.name \in {"do_some_mut_thing", "do_something_else_immut"}) =>
          \/ op'.pc = "borrowed" /\ cells'[OpConn].borrow = "op"
          \/ op'.pc = "unwind" /\ op'.src = "borrow_mut"
    /\ (op.pc = "borrowed" /\ op' # op) =>
          \/ op'.pc = "in_tx" /\ opTx' = NewTx(OpConn)
          \/ op'.pc = "unwind" /\ opTx' = NoTx
    /\ (op.pc # "idle" /\ opTx' # opTx /\ opTx'.state = "Open") =>
          (op.pc = "borrowed" /\ opTx = NoTx)

\* C14 (amended): do_some_immut_thing and do_something_mut never borrow the
\* connection or open a transaction; do_some_mut_thing and
\* do_something_else_immut borrow it and begin exactly one transaction (none
\* when the borrow or the native begin fails).
C14_WhichOpsOpenTx ==
    [](C14_PlainState /\ C14_TxState) /\ [][C14_PlainFrame /\ C14_TxSteps]_vars

\* MarfTrieDbImpl's read-only operation is inside its transaction
C14_Witness ==
    /\ op.pc = "in_tx"
    /\ op.name = "do_something_else_immut"
    /\ op.m.kind = "MarfTrieDbImpl"
    /\ opTx.state = "Open"
    /\ cells[OpConn].borrow = "op"

\* every borrow_mut of an operation finds the connection unborrowed, and no
\* module operation is unwinding or has panicked
C15_NoBorrowFailure ==
    /\ op.pc # "unwind"
    /\ last.kind = "Panic" => \A k \in Kinds : last.call \notin OpsOf(k)
    /\ (op.pc = "entered" /\ OpensTx(op.name)) => cells[OpConn].borrow = "none"
    /\ (op.pc = "idle") => \A c \in DOMAIN cells : cells[c].borrow # "op"

\* a running operation can always take its next step
C15_CanProceed ==
    (op.pc # "idle") =>
        ENABLED (OpPlain \/ OpBorrowMut \/ OpTransaction("ok")
                    \/ OpCommit("ok") \/ OpReturn)

\* an operation ends only by returning
C15_EndsByReturn ==
    (op.pc # "idle" /\ op'.pc = "idle") => last' = Ok(op.name)

\* C15: in a sequence of module operations called one after the other on one
\* handle, with begin and commit succeeding, no borrow_mut fails (each finds
\* the connection unborrowed) and every operation runs to completion.
C15_SequentialNeverFails ==
    [](C15_NoBorrowFailure /\ C15_CanProceed) /\ [][C15_EndsByReturn]_vars

\* both modules share the handle and marf's transaction operation has
\* returned after committing
C15_Witness ==
    /\ op.pc = "idle"
    /\ last = Ok("do_something_else_immut")
    /\ opTx.state = "Committed"
    /\ \E a, b \in modules :
          /\ a.kind = "SortitionDbImpl"
          /\ b.kind = "MarfTrieDbImpl"
          /\ a.conn = b.conn
          /\ cells[a.conn].borrow = "none"

\* the panic of an operation that had borrowed the connection: a failed
\* begin, a failed commit, or todo!()
C16_PanicAfterBorrow(o) ==
    /\ o.pc = "unwind"
    /\ o.name \in {"do_some_mut_thing", "do_something_else_immut"}
    /\ o.src \in {"expect", "unwrap", "todo"}

\* unwinding only drops: it commits nothing
C16_Discards ==
    (C16_PanicAfterBorrow(op) /\ op'.pc = "unwind") =>
        /\ store' = store
        /\ opTx'.state # "Committed"
        /\ opTx' \in {opTx, DropTx(opTx)}

\* when the panic leaves the operation, its connection is unborrowed, no
\* transaction on it is Open, and the data is what it was
C16_Released ==
    (C16_PanicAfterBorrow(op) /\ op'.pc = "idle") =>
        /\ last' = Panic(op.name, op.src, op.variant, op.msg)
        /\ cells'[op.m.conn].borrow = "none"
        /\ ~opTx'.held
        /\ opTx'.state \in {"None", "RolledBack", "Abandoned"}
        /\ callerTx'[op.m.conn].state # "Open"
        /\ store' = store

\* after such a panic every operation of a module on the same connection can
\* be called and its borrow_mut succeeds
C16_NextCanBorrow ==
    (op.pc = "idle" /\ last.kind = "Panic"
        /\ last.call \in {"do_some_mut_thing", "do_something_else_immut"}
        /\ last.src \in {"expect", "unwrap", "todo"}
        /\ opTx # NoTx) =>
            /\ CanBorrowMut(opTx.conn)
            /\ OpenOn(opTx.conn) = 0
            /\ \A m \in modules : \A name \in OpsOf(m.kind) :
                  ENABLED OpCall(m, name, "mod")

\* ... and the operation that borrows next begins its transaction
C16_NextCanBegin ==
    (op.pc = "borrowed" /\ cells[OpConn].borrow = "op") =>
        (OpenOn(OpConn) = 0 /\ ENABLED OpTransaction("ok"))

\* C16: an operation that panics after borrowing the connection releases the
\* borrow and discards its transaction while unwinding; afterwards the
\* connection is unborrowed with no Open transaction, and an operation of
\* another module on the same handle can borrow it and begin a transaction.
C16_PanicReleases ==
    [](C16_NextCanBorrow /\ C16_NextCanBegin)
        /\ [][C16_Discards /\ C16_Released]_vars

\* todo!() panicked inside the transaction of one module; the borrow is
\* released, the transaction abandoned, and another module shares the handle
C16_Witness ==
    /\ op.pc = "idle"
    /\ last.kind = "Panic"
    /\ last.src = "todo"
    /\ opTx.state = "Abandoned"
    /\ cells[opTx.conn].borrow = "none"
    /\ \E a, b \in modules : a.kind # b.kind /\ a.conn = b.conn /\ a.conn = opTx.conn

====
